---- MODULE Spec2Model ----
(***************************************************************************)
(* Model of bot/utils/advanced_rate_limiter.py: AdvancedRateLimiter, the   *)
(* per-channel priority queue with dedup, sliding-window rate limits, the  *)
(* dispatcher loop (_process_queues), the per-channel workers              *)
(* (_process_channel_queue, _send_message) and flush_all_queues.           *)
(*                                                                         *)
(* Time is counted in ticks of 0.1 s.  An asyncio task runs atomically     *)
(* from one await to the next, so every action below is one such stretch.  *)
(* Strings are modelled as sequences of tokens.                            *)
(***************************************************************************)
EXTENDS Integers, Sequences, FiniteSets, TLC

VARIABLES
  now,                   \* time.time(), in ticks
  channel_queues,        \* self.channel_queues
  channel_last_sent,     \* self.channel_last_sent (a dict: partial function)
  channel_message_count, \* self.channel_message_count (deque per channel)
  global_message_times,  \* self.global_message_times (deque)
  processing_channels,   \* self.processing_channels
  global_rate_limit_reset, \* self.global_rate_limit_reset
  recent_embeds,         \* self.recent_embeds
  task,                  \* the _process_channel_queue tasks, by channel and creator
  flush,                 \* the flush_all_queues call: its position and timer
  nsub,                  \* number of queue_message calls that queued a message
  accepted,              \* history: <<channel, embed hash, time>> of every queued message
  attempts,              \* history: per message id, times handed to channel.send
  delivered,             \* history: per message id, successful sends
  sendlog,               \* history: <<channel, time handed to channel.send>> of successful sends
  notBefore,             \* history: per message id, time of its latest 429 response + retry_after
  globalDeadline,        \* history: latest (global 429 response time + retry_after)
  popped,                \* history: channels a worker has dequeued from
  atFlush,               \* history: what held when flush_all_queues was called
  raised,                \* history: ids of the messages whose callback raised
  stats                  \* what the latest get_queue_stats call returned, if any

vars == <<now, channel_queues, channel_last_sent, channel_message_count,
          global_message_times, processing_channels, global_rate_limit_reset,
          recent_embeds, task, flush, nsub, accepted, attempts, delivered,
          sendlog, notBefore, globalDeadline, popped, atFlush, raised,
          stats>>

----------------------------------------------------------------------------
(* Program constants, in ticks of 0.1 s where they are durations.          *)
GLOBAL_RATE_LIMIT == 50
CHANNEL_RATE_LIMIT == 5
MESSAGE_DELAY == 2
GLOBAL_WINDOW == 10
CHANNEL_WINDOW == 50
dedup_window == 300
MAX_RETRIES == 3
WORKER_DELAY == 1
FLUSH_GRACE == 20

CRITICAL == 1
HIGH == 2
NORMAL == 3
LOW == 4
MessagePriority == {CRITICAL, HIGH, NORMAL, LOW}

(* Bounds of the model: the clock starts at Epoch; each specification      *)
(* below bounds the time it covers and the messages it queues.             *)
Epoch == 100
MaxTime == 3
MaxMsgs == 3
MultiMaxTime == 2
MultiMsgs == 2
ShutdownMaxTime == 40
ShutdownMsgs == 1
QueueMsgs == 4
DedupMsgs == 3
DedupStep == 100
DedupMaxTime == 300
RateMsgs == 6
RateStep == 10
RateMaxTime == 60
GlobalMaxTime == 2
GlobalMsgs == 3
OrderMaxTime == 5
DrainMsgs == 2
CallbackMsgs == 2
CallbackMaxTime == 3
StatsMsgs == 2
StaleMsgs == 3
CycleMsgs == 3
CancelMsgs == 2
SkewMsgs == 3
ScopedMsgs == 2
ConserveMsgs == 2
LiveMaxTime == 60
ConserveMaxTime == 2
ScopedMaxTime == 2
SkewMaxTime == 12
CancelMaxTime == 2
CycleMaxTime == 1
StaleMaxTime == 51
DrainMaxTime == 22

Channels == {1, 2}
Origins == {"dispatcher", "flush"}
Tasks == Channels \X Origins
MsgIds == 1..(RateMsgs + 2)

(* An embed: the four hashed fields, and one field the hash leaves out.    *)
Embed(title, description, nfields, footer, color) ==
  [title |-> title, description |-> description, nfields |-> nfields,
   footer |-> footer, color |-> color]
EmbedKill == Embed("kill", "a killed b", 2, "EKF", 1)
EmbedKillRecolored == Embed("kill", "a killed b", 2, "EKF", 2)
EmbedJoin == Embed("join", "c connected", 0, "EKF", 1)

Range(s) == {s[i] : i \in 1..Len(s)}
Max(a, b) == IF a >= b THEN a ELSE b

----------------------------------------------------------------------------
(* Pure helpers.                                                           *)

(* deque(maxlen=n).append(x): the oldest entry falls out of a full deque.  *)
DequeAppend(d, x, maxlen) ==
  IF Len(d) >= maxlen THEN Append(Tail(d), x) ELSE Append(d, x)

(* while d and current_time - d[0] > window: d.popleft()                   *)
RECURSIVE PopOld(_, _, _)
PopOld(d, current_time, window) ==
  IF d # <<>> /\ current_time - Head(d) > window
    THEN PopOld(Tail(d), current_time, window)
    ELSE d

(* dict.get(key, default)                                                  *)
DictGet(d, key, default) == IF key \in DOMAIN d THEN d[key] ELSE default

(* _generate_embed_hash: str(hash("_".join(hash_parts))), a one-token      *)
(* string; the digest is taken to be free of collisions.                   *)
GenerateEmbedHash(embed) ==
  << <<embed.title, embed.description, embed.nfields, embed.footer>> >>

(* f"{current_time}_{embed_hash}"                                          *)
DedupEntry(current_time, embed_hash) == <<current_time, "_">> \o embed_hash

(* float(h.split('_')[0])                                                  *)
EntryTime(h) == h[1]

(* the list comprehension that drops the expired hashes                    *)
PurgeRecent(channel_recent, current_time) ==
  SelectSeq(channel_recent, LAMBDA h : current_time - EntryTime(h) < dedup_window)

(* if embed_hash in self.recent_embeds[channel_id]                         *)
IsDuplicate(embed_hash, recent) == embed_hash \in Range(recent)

(* the insert-by-priority loop of queue_message                            *)
InsertBeforeOrEqual(message, existing) == message.priority <= existing.priority

InsertBefore(message, existing) == message.priority < existing.priority

InsertAtEnd(queue, message) == Append(queue, message)

InsertByPriority(queue, message) ==
  LET later == {i \in 1..Len(queue) : InsertBefore(message, queue[i])}
  IN IF later = {}
       THEN Append(queue, message)
       ELSE LET i == CHOOSE j \in later : \A k \in later : j <= k
            IN SubSeq(queue, 1, i - 1) \o <<message>> \o SubSeq(queue, i, Len(queue))

(* _is_globally_rate_limited: the cleaned deque and the answer             *)
GlobalTimesAfterCheck(times, current_time) == PopOld(times, current_time, GLOBAL_WINDOW)

GlobalWindowFullAlways(times) == Len(times) >= 0

GlobalWindowFull(times) == Len(times) >= GLOBAL_RATE_LIMIT

IsGloballyRateLimitedByReset(times, reset, current_time) == current_time < reset

IsGloballyRateLimited(times, reset, current_time) ==
  \/ GlobalWindowFull(GlobalTimesAfterCheck(times, current_time))
  \/ current_time < reset

(* _can_send_to_channel: the cleaned deque and the answer                  *)
ChannelTimesAfterCheckEarly(times, current_time) ==
  PopOld(times, current_time, CHANNEL_WINDOW - 1)

ChannelTimesAfterCheck(times, current_time) == PopOld(times, current_time, CHANNEL_WINDOW)

ChannelWindowFull(times) == Len(times) >= CHANNEL_RATE_LIMIT

CanSendToChannelNoDelay(times, last_sent, channel_id, current_time) ==
  ~ChannelWindowFull(ChannelTimesAfterCheck(times, current_time))

CanSendToChannel(times, last_sent, channel_id, current_time) ==
  /\ ~ChannelWindowFull(ChannelTimesAfterCheck(times, current_time))
  /\ ~(current_time - DictGet(last_sent, channel_id, 0) < MESSAGE_DELAY)

(* message.retry_count += 1; if message.retry_count < 3: queue.insert(0, message) *)
KeepAfterFailureOnceMore(retry_count) == retry_count <= MAX_RETRIES

KeepAfterFailure(retry_count) == retry_count < MAX_RETRIES

RequeueFailedAtTail(queue, message) ==
  LET m == [message EXCEPT !.retry_count = @ + 1]
  IN IF KeepAfterFailure(m.retry_count) THEN Append(queue, m) ELSE queue

RequeueFailed(queue, message) ==
  LET m == [message EXCEPT !.retry_count = @ + 1]
  IN IF KeepAfterFailure(m.retry_count) THEN <<m>> \o queue ELSE queue

----------------------------------------------------------------------------
(* State after __init__.                                                   *)
IdleTask == [pc |-> "none", msg |-> <<>>, current_time |-> 0, wake |-> 0]

NoFlush == [nsub |-> 0, inflight |-> {}]

Init ==
  /\ now = Epoch
  /\ channel_queues = [c \in Channels |-> <<>>]
  /\ channel_last_sent = <<>>
  /\ channel_message_count = [c \in Channels |-> <<>>]
  /\ global_message_times = <<>>
  /\ processing_channels = {}
  /\ global_rate_limit_reset = 0
  /\ recent_embeds = [c \in Channels |-> <<>>]
  /\ task = [k \in Tasks |-> IdleTask]
  /\ flush = [pc |-> "idle", wake |-> 0]
  /\ nsub = 0
  /\ accepted = <<>>
  /\ attempts = [i \in MsgIds |-> 0]
  /\ delivered = [i \in MsgIds |-> 0]
  /\ sendlog = <<>>
  /\ notBefore = [i \in MsgIds |-> 0]
  /\ globalDeadline = 0
  /\ popped = {}
  /\ atFlush = NoFlush
  /\ raised = {}
  /\ stats = <<>>

history == <<nsub, accepted, attempts, delivered, sendlog, notBefore,
             globalDeadline, popped, atFlush, raised,
             stats>>

----------------------------------------------------------------------------
(* queue_message(channel_id, embed, priority=priority, callback=callback); *)
(* callback is TRUE when a callable is given, FALSE for None.              *)
QueuedMessage(id, channel_id, embed, priority, callback) ==
  [id |-> id, channel_id |-> channel_id, embed |-> embed, priority |-> priority,
   retry_count |-> 0, callback |-> callback]

(* The body of queue_message awaits nothing: it runs whatever the workers   *)
(* and the dispatcher are doing.                                           *)
QueueMessageRunsWhenUnclaimed(channel_id) == channel_id \notin processing_channels

QueueMessageRuns(channel_id) == TRUE

queue_message(channel_id, embed, priority, callback, limit) ==
  LET embed_hash == GenerateEmbedHash(embed)
      current_time == now
      recent == PurgeRecent(recent_embeds[channel_id], current_time)
      message == QueuedMessage(nsub + 1, channel_id, embed, priority, callback)
  IN /\ nsub < limit
     /\ QueueMessageRuns(channel_id)
     /\ IF IsDuplicate(embed_hash, recent)
          THEN /\ recent_embeds' = [recent_embeds EXCEPT ![channel_id] = recent]
               /\ UNCHANGED <<channel_queues, nsub, accepted>>
          ELSE /\ recent_embeds' = [recent_embeds EXCEPT ![channel_id] =
                                      Append(recent, DedupEntry(current_time, embed_hash))]
               /\ channel_queues' = [channel_queues EXCEPT ![channel_id] =
                                       InsertByPriority(@, message)]
               /\ nsub' = nsub + 1
               /\ accepted' = Append(accepted, <<channel_id, embed_hash, current_time>>)
     /\ UNCHANGED <<now, channel_last_sent, channel_message_count, global_message_times,
                    processing_channels, global_rate_limit_reset, task, flush,
                    attempts, delivered, sendlog, notBefore, globalDeadline,
                    popped, atFlush, raised,
                    stats>>

----------------------------------------------------------------------------
(* _process_queues: one cycle of the loop, from time.time() to the sleep.  *)
(* A task made by create_task runs before the 0.05 s sleep is over, so a   *)
(* cycle never finds a task of its own that is still waiting to run.           *)
DispatcherStarts(channel_id, current_time) ==
  /\ channel_queues[channel_id] # <<>>
  /\ channel_id \notin processing_channels
  /\ CanSendToChannel(channel_message_count[channel_id], channel_last_sent,
                      channel_id, current_time)

DispatcherChecks(channel_id) ==
  /\ channel_queues[channel_id] # <<>>
  /\ channel_id \notin processing_channels

(* create_task does not wait for the worker: a cycle needs no worker to   *)
(* have finished, only the tasks of the cycle before to have started.      *)
CycleRunsWhenIdle == \A k \in Tasks : task[k].pc = "none"

CycleRuns == \A c \in Channels : task[<<c, "dispatcher">>].pc # "created"

process_queues ==
  LET current_time == now
      limited == IsGloballyRateLimited(global_message_times, global_rate_limit_reset,
                                       current_time)
  IN /\ CycleRuns
     /\ global_message_times' = GlobalTimesAfterCheck(global_message_times, current_time)
     /\ IF limited
          THEN UNCHANGED <<channel_message_count, task>>
          ELSE /\ channel_message_count' =
                    [c \in Channels |->
                       IF DispatcherChecks(c)
                         THEN ChannelTimesAfterCheck(channel_message_count[c], current_time)
                         ELSE channel_message_count[c]]
               /\ task' = [k \in Tasks |->
                             IF k[2] = "dispatcher" /\ DispatcherStarts(k[1], current_time)
                               THEN [IdleTask EXCEPT !.pc = "created"]
                               ELSE task[k]]
     /\ UNCHANGED <<now, channel_queues, channel_last_sent, processing_channels,
                    global_rate_limit_reset, recent_embeds, flush, history>>

----------------------------------------------------------------------------
(* _process_channel_queue(channel_id), one action per stretch between awaits. *)

(* `channel_id in self.processing_channels` at the top of the worker       *)
AlreadyClaimedNever(channel_id) == FALSE

AlreadyClaimed(channel_id) == channel_id \in processing_channels

(* finally: self.processing_channels.discard(channel_id)                   *)
ReleaseKeepsClaim(k) ==
  /\ processing_channels' = processing_channels
  /\ task' = [task EXCEPT ![k] = IdleTask]

Release(k) ==
  /\ processing_channels' = processing_channels \ {k[1]}
  /\ task' = [task EXCEPT ![k] = IdleTask]

(* `return` before the try statement: the finally clause is not reached.  *)
ReturnIfClaimedDiscards(k) ==
  /\ processing_channels' = processing_channels \ {k[1]}
  /\ task' = [task EXCEPT ![k] = IdleTask]

ReturnIfClaimed(k) ==
  /\ processing_channels' = processing_channels
  /\ task' = [task EXCEPT ![k] = IdleTask]

(* message = queue.pop(0): what is left in the queue                       *)
QueueAfterPopKept(queue) == queue

QueueAfterPop(queue) == Tail(queue)

(* From `while queue:` to `await channel.send(...)` in _send_message: the  *)
(* two checks, queue.pop(0) and the hand-over to the transport; or the     *)
(* end of the loop and the finally clause.                                 *)
WorkerLoop(k) ==
  LET channel_id == k[1]
      queue == channel_queues[channel_id]
      current_time == now
      can_send == CanSendToChannel(channel_message_count[channel_id],
                                   channel_last_sent, channel_id, current_time)
      limited == IsGloballyRateLimited(global_message_times,
                                       global_rate_limit_reset, current_time)
      message == Head(queue)
  IN IF queue = <<>>
       THEN /\ Release(k)
            /\ UNCHANGED <<channel_queues, channel_message_count,
                           global_message_times, attempts, notBefore, popped>>
       ELSE /\ channel_message_count' =
                 [channel_message_count EXCEPT ![channel_id] =
                    ChannelTimesAfterCheck(@, current_time)]
            /\ IF ~can_send
                 THEN /\ Release(k)
                      /\ UNCHANGED <<channel_queues, global_message_times,
                                     attempts, notBefore, popped>>
                 ELSE /\ global_message_times' =
                           GlobalTimesAfterCheck(global_message_times, current_time)
                      /\ IF limited
                           THEN /\ Release(k)
                                /\ UNCHANGED <<channel_queues, attempts, notBefore, popped>>
                           ELSE /\ channel_queues' =
                                     [channel_queues EXCEPT ![channel_id] = QueueAfterPop(queue)]
                                /\ processing_channels' = processing_channels \cup {channel_id}
                                /\ task' = [task EXCEPT ![k] =
                                              [pc |-> "sending", msg |-> <<message>>,
                                               current_time |-> current_time, wake |-> 0]]
                                /\ attempts' = [attempts EXCEPT ![message.id] = @ + 1]
                                /\ UNCHANGED notBefore
                                /\ popped' = popped \cup {channel_id}

(* self.channel_queues[channel_id].clear() when the channel is not found   *)
QueueAfterNotFoundKept(queue) == queue

QueueAfterNotFound(queue) == <<>>

(* The task starts: the claim, bot.get_channel (found: whether it returns  *)
(* a channel), and the first pass of the loop.                             *)
WorkerStart(k, found) ==
  /\ task[k].pc = "created"
  /\ IF AlreadyClaimed(k[1])
       THEN /\ ReturnIfClaimed(k)
            /\ UNCHANGED <<channel_queues, channel_message_count, global_message_times,
                           attempts, notBefore, popped>>
       ELSE IF found
              THEN WorkerLoop(k)
              ELSE /\ channel_queues' = [channel_queues EXCEPT ![k[1]] =
                                          QueueAfterNotFound(@)]
                   /\ Release(k)
                   /\ UNCHANGED <<channel_message_count, global_message_times,
                                  attempts, notBefore, popped>>
  /\ UNCHANGED <<now, channel_last_sent, global_rate_limit_reset, recent_embeds, flush,
                 nsub, accepted, delivered, sendlog, globalDeadline, atFlush, raised,
                 stats>>

(* channel.send returned: _send_message returns True, the three tracking   *)
(* updates, then `await message.callback()` if the message has a callback, *)
(* else `await asyncio.sleep(0.1)`.                                        *)
RecordSuccessTwice(times, current_time, maxlen) ==
  DequeAppend(DequeAppend(times, current_time, maxlen), current_time, maxlen)

RecordSuccess(times, current_time, maxlen) == DequeAppend(times, current_time, maxlen)

(* the `if success:` branch leaves the queue alone: the message is gone    *)
QueueAfterSuccessRequeued(queue, message) == <<message>> \o queue

QueueAfterSuccess(queue, message) == queue

SendOk(k) ==
  LET channel_id == k[1]
      t == task[k]
  IN /\ t.pc = "sending"
     /\ global_message_times' =
          RecordSuccess(global_message_times, t.current_time, GLOBAL_RATE_LIMIT)
     /\ channel_message_count' =
          [channel_message_count EXCEPT ![channel_id] =
             RecordSuccess(@, t.current_time, CHANNEL_RATE_LIMIT)]
     /\ channel_last_sent' =
          [c \in DOMAIN channel_last_sent \cup {channel_id} |->
             IF c = channel_id THEN t.current_time ELSE channel_last_sent[c]]
     /\ task' = [task EXCEPT ![k] =
                   IF t.msg[1].callback
                     THEN [pc |-> "callback", msg |-> t.msg, current_time |-> 0,
                           wake |-> 0]
                     ELSE [pc |-> "sleep", msg |-> <<>>, current_time |-> 0,
                           wake |-> now + WORKER_DELAY]]
     /\ channel_queues' = [channel_queues EXCEPT ![channel_id] =
                             QueueAfterSuccess(@, t.msg[1])]
     /\ delivered' = [delivered EXCEPT ![t.msg[1].id] = @ + 1]
     /\ sendlog' = Append(sendlog, <<channel_id, t.current_time>>)
     /\ UNCHANGED <<now, processing_channels, global_rate_limit_reset,
                    recent_embeds, flush, nsub, accepted, attempts, notBefore,
                    globalDeadline, popped, atFlush, raised,
                    stats>>

(* channel.send raised HTTPException with status 429: the reset time is    *)
(* set if the error is global, then `await asyncio.sleep(retry_after)`.    *)
ResetAfter429Always(reset, is_global, response_time, retry_after) ==
  response_time + retry_after

ResetAfter429(reset, is_global, response_time, retry_after) ==
  IF is_global THEN response_time + retry_after ELSE reset

ThrottleSleepNone(response_time, retry_after) == response_time

ThrottleSleepUntil(response_time, retry_after) == response_time + retry_after

SendRateLimited(k, retry_after, is_global) ==
  LET t == task[k]
  IN /\ t.pc = "sending"
     /\ global_rate_limit_reset' =
          ResetAfter429(global_rate_limit_reset, is_global, now, retry_after)
     /\ task' = [task EXCEPT ![k] = [t EXCEPT !.pc = "throttled",
                                              !.wake = ThrottleSleepUntil(now, retry_after)]]
     /\ notBefore' = [notBefore EXCEPT ![t.msg[1].id] = now + retry_after]
     /\ globalDeadline' = IF is_global THEN Max(globalDeadline, now + retry_after)
                                       ELSE globalDeadline
     /\ UNCHANGED <<now, channel_queues, channel_last_sent, channel_message_count,
                    global_message_times, processing_channels, recent_embeds, flush,
                    nsub, accepted, attempts, delivered, sendlog, popped, atFlush,
                    raised,
                    stats>>

(* _send_message returned False: the retry branch, then the 0.1 s sleep.   *)
AfterFailure(k) ==
  LET t == task[k]
  IN /\ channel_queues' = [channel_queues EXCEPT ![k[1]] = RequeueFailed(@, t.msg[1])]
     /\ task' = [task EXCEPT ![k] = [pc |-> "sleep", msg |-> <<>>, current_time |-> 0,
                                     wake |-> now + WORKER_DELAY]]
     /\ UNCHANGED <<now, channel_last_sent, channel_message_count, global_message_times,
                    processing_channels, global_rate_limit_reset, recent_embeds, flush,
                    history>>

(* the sleep(retry_after) of _send_message is over                         *)
ThrottleWake(k) ==
  /\ task[k].pc = "throttled"
  /\ now >= task[k].wake
  /\ AfterFailure(k)

(* channel.send raised anything else                                       *)
SendFail(k) ==
  /\ task[k].pc = "sending"
  /\ AfterFailure(k)

(* `await message.callback()` is over: it returned, or it raised and the   *)
(* `except Exception` around it logged the error; then the 0.1 s sleep.    *)
QueueAfterCallbackRequeued(queue, message) == <<message>> \o queue

QueueAfterCallback(queue, message) == queue

CallbackDone(k) ==
  /\ task[k].pc = "callback"
  /\ channel_queues' = [channel_queues EXCEPT ![k[1]] =
                          QueueAfterCallback(@, task[k].msg[1])]
  /\ task' = [task EXCEPT ![k] = [pc |-> "sleep", msg |-> <<>>, current_time |-> 0,
                                  wake |-> now + WORKER_DELAY]]
  /\ UNCHANGED <<now, channel_last_sent, channel_message_count, global_message_times,
                 processing_channels, global_rate_limit_reset, recent_embeds, flush,
                 nsub, accepted, attempts, delivered, sendlog, notBefore,
                 globalDeadline, popped, atFlush, stats>>

CallbackReturns(k) ==
  /\ CallbackDone(k)
  /\ UNCHANGED raised

CallbackRaises(k) ==
  /\ CallbackDone(k)
  /\ raised' = raised \cup {task[k].msg[1].id}

(* the sleep(0.1) at the bottom of the loop is over                        *)
WorkerResume(k) ==
  /\ task[k].pc = "sleep"
  /\ now >= task[k].wake
  /\ WorkerLoop(k)
  /\ UNCHANGED <<now, channel_last_sent, global_rate_limit_reset, recent_embeds, flush,
                 nsub, accepted, delivered, sendlog, globalDeadline, atFlush, raised,
                 stats>>

(* The worker is cancelled at one of its awaits (channel.send, the sleep   *)
(* after a 429, the callback, the 0.1 s sleep), or an exception leaves the *)
(* loop there: `except asyncio.CancelledError: raise` and the other except *)
(* clauses only log, then the finally clause runs. A message the worker    *)
(* had popped is not put back.                                             *)
CancelledExitLeaks(k) ==
  /\ processing_channels' = processing_channels
  /\ task' = [task EXCEPT ![k] = IdleTask]

CancelledExit(k) == Release(k)

WorkerCancelled(k) ==
  /\ task[k].pc \in {"sending", "throttled", "callback", "sleep"}
  /\ CancelledExit(k)
  /\ UNCHANGED <<now, channel_queues, channel_last_sent, channel_message_count,
                 global_message_times, global_rate_limit_reset, recent_embeds, flush,
                 history>>

----------------------------------------------------------------------------
(* flush_all_queues                                                        *)
FlushTargets == {c \in Channels : channel_queues[c] # <<>> /\ c \notin processing_channels}

(* The send attempts under way: a worker is inside _send_message, waiting  *)
(* for channel.send or in the sleep(retry_after) that follows a 429.       *)
Sending(k) == task[k].pc \in {"sending", "throttled"}

FlushCall ==
  /\ flush.pc = "idle"
  /\ flush' = [pc |-> "grace", wake |-> now + FLUSH_GRACE]
  /\ atFlush' = [nsub |-> nsub,
                 inflight |-> {<<k, task[k].msg[1].id, attempts[task[k].msg[1].id]>> :
                                 k \in {t \in Tasks : Sending(t)}}]
  /\ UNCHANGED <<now, channel_queues, channel_last_sent, channel_message_count,
                 global_message_times, processing_channels, global_rate_limit_reset,
                 recent_embeds, task, nsub, accepted, attempts, delivered, sendlog,
                 notBefore, globalDeadline, popped, raised,
                 stats>>

FlushSpawn ==
  /\ flush.pc = "grace"
  /\ now >= flush.wake
  /\ task' = [k \in Tasks |->
                IF k[2] = "flush" /\ k[1] \in FlushTargets
                  THEN [IdleTask EXCEPT !.pc = "created"]
                  ELSE task[k]]
  /\ flush' = [pc |-> IF FlushTargets = {} THEN "done" ELSE "gather", wake |-> 0]
  /\ UNCHANGED <<now, channel_queues, channel_last_sent, channel_message_count,
                 global_message_times, processing_channels, global_rate_limit_reset,
                 recent_embeds, history>>

FlushReturn ==
  /\ flush.pc = "gather"
  /\ \A c \in Channels : task[<<c, "flush">>].pc = "none"
  /\ flush' = [pc |-> "done", wake |-> 0]
  /\ UNCHANGED <<now, channel_queues, channel_last_sent, channel_message_count,
                 global_message_times, processing_channels, global_rate_limit_reset,
                 recent_embeds, task, history>>

----------------------------------------------------------------------------
(* get_queue_stats                                                         *)
RECURSIVE Sum(_, _)
Sum(f, S) ==
  IF S = {} THEN 0
  ELSE LET x == CHOOSE y \in S : TRUE IN f[x] + Sum(f, S \ {x})

(* MessagePriority(value).name                                             *)
PriorityName(p) ==
  CASE p = CRITICAL -> "CRITICAL"
    [] p = HIGH -> "HIGH"
    [] p = NORMAL -> "NORMAL"
    [] p = LOW -> "LOW"

(* `if q` in the list comprehension of active_channels                     *)
IsActiveAlways(queue) == TRUE

IsActive(queue) == queue # <<>>

(* priority_counts[message.priority.name] += 1 over every queued message:  *)
(* a dict of the names that occur, with the number of their messages       *)
PriorityBreakdown(queues) ==
  LET longest == Sum([c \in Channels |-> Len(queues[c])], Channels)
      places == {pl \in Channels \X (1..longest) : pl[2] <= Len(queues[pl[1]])}
      name(pl) == PriorityName(queues[pl[1]][pl[2]].priority)
  IN [n \in {name(pl) : pl \in places} |->
        Cardinality({pl \in places : name(pl) = n})]

GetQueueStats ==
  [total_queued |-> Sum([c \in Channels |-> Len(channel_queues[c])], Channels),
   active_channels |-> Cardinality({c \in Channels : IsActive(channel_queues[c])}),
   processing_channels |-> Cardinality(processing_channels),
   priority_breakdown |-> PriorityBreakdown(channel_queues),
   global_rate_limit_active |-> now < global_rate_limit_reset,
   recent_global_messages |-> Len(global_message_times)]

(* the loops of get_queue_stats read the lists and leave them alone        *)
QueueAfterStatsDrained(queue) == <<>>

QueueAfterStats(queue) == queue

get_queue_stats ==
  /\ stats' = <<GetQueueStats>>
  /\ channel_queues' = [c \in Channels |-> QueueAfterStats(channel_queues[c])]
  /\ UNCHANGED <<now, channel_last_sent, channel_message_count, global_message_times,
                 processing_channels, global_rate_limit_reset, recent_embeds, task,
                 flush, nsub, accepted, attempts, delivered, sendlog, notBefore,
                 globalDeadline, popped, atFlush, raised>>

----------------------------------------------------------------------------
(* The clock.                                                              *)
Tick(d, limit) ==
  /\ now + d <= Epoch + limit
  /\ now' = now + d
  /\ UNCHANGED <<channel_queues, channel_last_sent, channel_message_count,
                 global_message_times, processing_channels, global_rate_limit_reset,
                 recent_embeds, task, flush, history>>

----------------------------------------------------------------------------
(* The transport's answers and the specifications.                         *)
RetryAfters == {1, 3}

Dispatch == process_queues
Start == \E k \in Tasks, found \in BOOLEAN : WorkerStart(k, found)
StartFound == \E k \in Tasks : WorkerStart(k, TRUE)
Ack == \E k \in Tasks : SendOk(k)
RateLimited == \E k \in Tasks, r \in RetryAfters, g \in BOOLEAN : SendRateLimited(k, r, g)
Wake == \E k \in Tasks : ThrottleWake(k)
Fail == \E k \in Tasks : SendFail(k)
Resume == \E k \in Tasks : WorkerResume(k)
CallbackOk == \E k \in Tasks : CallbackReturns(k)
CallbackError == \E k \in Tasks : CallbackRaises(k)

(* Spec: the traffic of one destination, in ticks.                         *)
Submit == \E p \in {HIGH, NORMAL} : queue_message(1, EmbedKill, p, FALSE, MaxMsgs)
Time == Tick(1, MaxTime)

Next ==
  \/ Submit
  \/ Dispatch
  \/ Start
  \/ Ack
  \/ RateLimited
  \/ Wake
  \/ Fail
  \/ Resume
  \/ Time

Spec == Init /\ [][Next]_vars

(* SpecMulti: two destinations with their workers side by side.            *)
SubmitMulti == \E c \in Channels : queue_message(c, EmbedKill, NORMAL, FALSE, MultiMsgs)
TimeMulti == Tick(1, MultiMaxTime)

NextMulti ==
  \/ SubmitMulti
  \/ Dispatch
  \/ Start
  \/ Ack
  \/ RateLimited
  \/ Wake
  \/ Fail
  \/ Resume
  \/ TimeMulti

SpecMulti == Init /\ [][NextMulti]_vars

(* SpecShutdown: the dispatcher and flush_all_queues together; the clock   *)
(* moves in steps of the grace period.                                     *)
SubmitShutdown == \E c \in Channels : queue_message(c, EmbedKill, NORMAL, FALSE, ShutdownMsgs)
TimeShutdown == Tick(FLUSH_GRACE, ShutdownMaxTime)

NextShutdown ==
  \/ SubmitShutdown
  \/ Dispatch
  \/ Start
  \/ Ack
  \/ RateLimited
  \/ Wake
  \/ Fail
  \/ Resume
  \/ FlushCall
  \/ FlushSpawn
  \/ FlushReturn
  \/ TimeShutdown

SpecShutdown == Init /\ [][NextShutdown]_vars

(* SpecQueue: queue_message alone, with every priority.                    *)
SubmitQueue == \E c \in Channels, p \in MessagePriority :
                 queue_message(c, EmbedKill, p, FALSE, QueueMsgs)

NextQueue == SubmitQueue

SpecQueue == Init /\ [][NextQueue]_vars

(* SpecDedup: queue_message alone, with embeds that agree or differ in the *)
(* hashed fields, over more than a dedup window.                           *)
SubmitDedup == \E c \in Channels, e \in {EmbedKill, EmbedKillRecolored, EmbedJoin} :
                 queue_message(c, e, NORMAL, FALSE, DedupMsgs)
TimeDedup == Tick(DedupStep, DedupMaxTime)

NextDedup ==
  \/ SubmitDedup
  \/ TimeDedup

SpecDedup == Init /\ [][NextDedup]_vars

(* SpecRate: one destination whose queue already holds RateMsgs messages, *)
(* each queued at Epoch by a queue_message call with an embed of its own;  *)
(* the clock moves in steps of RateStep ticks.  The transport accepts      *)
(* these messages and may answer any later message with an error.          *)
RateEmbed(i) == Embed("kill", "a killed b", i, "EKF", 1)

InitRate ==
  /\ now = Epoch
  /\ channel_queues =
       [c \in Channels |->
          IF c = 1 THEN [i \in 1..RateMsgs |-> QueuedMessage(i, 1, RateEmbed(i), NORMAL, FALSE)]
                   ELSE <<>>]
  /\ channel_last_sent = <<>>
  /\ channel_message_count = [c \in Channels |-> <<>>]
  /\ global_message_times = <<>>
  /\ processing_channels = {}
  /\ global_rate_limit_reset = 0
  /\ recent_embeds =
       [c \in Channels |->
          IF c = 1 THEN [i \in 1..RateMsgs |->
                           DedupEntry(Epoch, GenerateEmbedHash(RateEmbed(i)))]
                   ELSE <<>>]
  /\ task = [k \in Tasks |-> IdleTask]
  /\ flush = [pc |-> "idle", wake |-> 0]
  /\ nsub = RateMsgs
  /\ accepted = [i \in 1..RateMsgs |-> <<1, GenerateEmbedHash(RateEmbed(i)), Epoch>>]
  /\ attempts = [i \in MsgIds |-> 0]
  /\ delivered = [i \in MsgIds |-> 0]
  /\ sendlog = <<>>
  /\ notBefore = [i \in MsgIds |-> 0]
  /\ globalDeadline = 0
  /\ popped = {}
  /\ atFlush = NoFlush
  /\ raised = {}
  /\ stats = <<>>

SubmitRate == \E p \in {HIGH, NORMAL} : queue_message(1, EmbedJoin, p, FALSE, RateMsgs + 1)
TimeRate == Tick(RateStep, RateMaxTime)
Late(k) == task[k].msg # <<>> /\ task[k].msg[1].id > RateMsgs
RateLimitedLate == \E k \in Tasks, r \in RetryAfters, g \in BOOLEAN :
                     Late(k) /\ SendRateLimited(k, r, g)
FailLate == \E k \in Tasks : Late(k) /\ SendFail(k)

NextRate ==
  \/ SubmitRate
  \/ Dispatch
  \/ Start
  \/ Ack
  \/ RateLimitedLate
  \/ Wake
  \/ FailLate
  \/ Resume
  \/ TimeRate

SpecRate == InitRate /\ [][NextRate]_vars

(* SpecGlobal: the global window one short of GLOBAL_RATE_LIMIT.  Other    *)
(* destinations, which the model does not follow further (channel 0 in the *)
(* log), have had GLOBAL_RATE_LIMIT - 1 sends succeed at Epoch; the two    *)
(* destinations of the model have one message queued each.                 *)
OtherSends == [i \in 1..(GLOBAL_RATE_LIMIT - 1) |-> Epoch]

InitGlobal ==
  /\ now = Epoch
  /\ channel_queues = [c \in Channels |-> <<QueuedMessage(c, c, EmbedKill, NORMAL, FALSE)>>]
  /\ channel_last_sent = <<>>
  /\ channel_message_count = [c \in Channels |-> <<>>]
  /\ global_message_times = OtherSends
  /\ processing_channels = {}
  /\ global_rate_limit_reset = 0
  /\ recent_embeds =
       [c \in Channels |-> <<DedupEntry(Epoch, GenerateEmbedHash(EmbedKill))>>]
  /\ task = [k \in Tasks |-> IdleTask]
  /\ flush = [pc |-> "idle", wake |-> 0]
  /\ nsub = Cardinality(Channels)
  /\ accepted = [c \in Channels |-> <<c, GenerateEmbedHash(EmbedKill), Epoch>>]
  /\ attempts = [i \in MsgIds |-> 0]
  /\ delivered = [i \in MsgIds |-> 0]
  /\ sendlog = [i \in 1..Len(OtherSends) |-> <<0, OtherSends[i]>>]
  /\ notBefore = [i \in MsgIds |-> 0]
  /\ globalDeadline = 0
  /\ popped = {}
  /\ atFlush = NoFlush
  /\ raised = {}
  /\ stats = <<>>

SubmitGlobal == \E c \in Channels : queue_message(c, EmbedJoin, NORMAL, FALSE, GlobalMsgs)
TimeGlobal == Tick(1, GlobalMaxTime)

NextGlobal ==
  \/ SubmitGlobal
  \/ Dispatch
  \/ Start
  \/ Ack
  \/ RateLimited
  \/ Wake
  \/ Fail
  \/ Resume
  \/ TimeGlobal

SpecGlobal == InitGlobal /\ [][NextGlobal]_vars

(* SpecOrder: a CRITICAL, then a LOW, then a NORMAL message are submitted  *)
(* to destination 1, each with an embed of its own, whenever the caller    *)
(* gets to it; the destination is found and the transport accepts every    *)
(* send.                                                                   *)
Scenario == <<CRITICAL, LOW, NORMAL>>

SubmitOrder ==
  /\ nsub < Len(Scenario)
  /\ queue_message(1, RateEmbed(nsub + 1), Scenario[nsub + 1], FALSE, Len(Scenario))
TimeOrder == Tick(1, OrderMaxTime)

NextOrder ==
  \/ SubmitOrder
  \/ Dispatch
  \/ StartFound
  \/ Ack
  \/ Resume
  \/ TimeOrder

SpecOrder == Init /\ [][NextOrder]_vars

(* SpecDrain: destination 1 has DrainMsgs messages queued, each queued at  *)
(* Epoch by a queue_message call with an embed of its own; the dispatcher  *)
(* and flush_all_queues run, the destination is found and the transport    *)
(* accepts every send.  The clock jumps over the grace period and then     *)
(* moves in ticks.                                                         *)
InitDrain ==
  /\ now = Epoch
  /\ channel_queues =
       [c \in Channels |->
          IF c = 1 THEN [i \in 1..DrainMsgs |->
                           QueuedMessage(i, 1, RateEmbed(i), NORMAL, FALSE)]
                   ELSE <<>>]
  /\ channel_last_sent = <<>>
  /\ channel_message_count = [c \in Channels |-> <<>>]
  /\ global_message_times = <<>>
  /\ processing_channels = {}
  /\ global_rate_limit_reset = 0
  /\ recent_embeds =
       [c \in Channels |->
          IF c = 1 THEN [i \in 1..DrainMsgs |->
                           DedupEntry(Epoch, GenerateEmbedHash(RateEmbed(i)))]
                   ELSE <<>>]
  /\ task = [k \in Tasks |-> IdleTask]
  /\ flush = [pc |-> "idle", wake |-> 0]
  /\ nsub = DrainMsgs
  /\ accepted = [i \in 1..DrainMsgs |-> <<1, GenerateEmbedHash(RateEmbed(i)), Epoch>>]
  /\ attempts = [i \in MsgIds |-> 0]
  /\ delivered = [i \in MsgIds |-> 0]
  /\ sendlog = <<>>
  /\ notBefore = [i \in MsgIds |-> 0]
  /\ globalDeadline = 0
  /\ popped = {}
  /\ atFlush = NoFlush
  /\ raised = {}
  /\ stats = <<>>

SubmitDrain == queue_message(1, EmbedJoin, NORMAL, FALSE, DrainMsgs + 1)
TimeDrain == Tick(IF now < Epoch + FLUSH_GRACE THEN FLUSH_GRACE ELSE 1, DrainMaxTime)

NextDrain ==
  \/ SubmitDrain
  \/ Dispatch
  \/ StartFound
  \/ Ack
  \/ Resume
  \/ FlushCall
  \/ FlushSpawn
  \/ FlushReturn
  \/ TimeDrain

SpecDrain == InitDrain /\ [][NextDrain]_vars

(* SpecCallback: messages with and without a completion callback for      *)
(* destination 1; a callback returns or raises.                            *)
SubmitCallback == \E callback \in BOOLEAN :
                    queue_message(1, EmbedKill, NORMAL, callback, CallbackMsgs)
TimeCallback == Tick(1, CallbackMaxTime)

NextCallback ==
  \/ SubmitCallback
  \/ Dispatch
  \/ Start
  \/ Ack
  \/ Fail
  \/ CallbackOk
  \/ CallbackError
  \/ Resume
  \/ TimeCallback

SpecCallback == Init /\ [][NextCallback]_vars

(* SpecStats: two destinations, urgent and bulk messages, and              *)
(* get_queue_stats called at any moment; the clock covers one sleep of a   *)
(* worker.                                                                 *)
SubmitStats == \E c \in Channels, p \in {HIGH, LOW} :
                 queue_message(c, EmbedKill, p, FALSE, StatsMsgs)
Stats == get_queue_stats
TimeStats == Tick(1, WORKER_DELAY)

NextStats ==
  \/ SubmitStats
  \/ Dispatch
  \/ Start
  \/ Ack
  \/ Fail
  \/ Resume
  \/ Stats
  \/ TimeStats

SpecStats == Init /\ [][NextStats]_vars

(* SpecCycle: SpecGlobal's start (one message queued for each destination, *)
(* the global window one send short of its capacity) with sends that       *)
(* succeed or are answered 429.                                            *)
SubmitCycle == \E c \in Channels : queue_message(c, EmbedJoin, NORMAL, FALSE, CycleMsgs)
TimeCycle == Tick(1, CycleMaxTime)

NextCycle ==
  \/ SubmitCycle
  \/ Dispatch
  \/ Start
  \/ Ack
  \/ RateLimited
  \/ Wake
  \/ Resume
  \/ TimeCycle

SpecCycle == InitGlobal /\ [][NextCycle]_vars

(* SpecCancel: the traffic of destination 1 with workers that may be       *)
(* cancelled at any of their awaits.                                       *)
SubmitCancel == queue_message(1, EmbedKill, NORMAL, FALSE, CancelMsgs)
Cancel == \E k \in Tasks : WorkerCancelled(k)
TimeCancel == Tick(1, CancelMaxTime)

NextCancel ==
  \/ SubmitCancel
  \/ Dispatch
  \/ Start
  \/ Ack
  \/ RateLimited
  \/ Wake
  \/ Fail
  \/ Resume
  \/ Cancel
  \/ TimeCancel

SpecCancel == Init /\ [][NextCancel]_vars

(* SpecSkew: both destinations over more than a global window, with sends  *)
(* that the transport may complete long after they were handed over; the   *)
(* clock advances by a little more than half the global window.            *)
SubmitSkew == \E c \in Channels : queue_message(c, EmbedKill, NORMAL, FALSE, SkewMsgs)
TimeSkew == Tick(GLOBAL_WINDOW \div 2 + 1, SkewMaxTime)

NextSkew ==
  \/ SubmitSkew
  \/ Dispatch
  \/ StartFound
  \/ Ack
  \/ Resume
  \/ TimeSkew

SpecSkew == Init /\ [][NextSkew]_vars

(* SpecScoped: both destinations, with sends that succeed or are answered  *)
(* 429 without the word "global" in the error text.                        *)
SubmitScoped == \E c \in Channels : queue_message(c, EmbedKill, NORMAL, FALSE, ScopedMsgs)
RateLimitedChannel == \E k \in Tasks, r \in RetryAfters : SendRateLimited(k, r, FALSE)
TimeScoped == Tick(1, ScopedMaxTime)

NextScoped ==
  \/ SubmitScoped
  \/ Dispatch
  \/ StartFound
  \/ Ack
  \/ RateLimitedChannel
  \/ Wake
  \/ Resume
  \/ TimeScoped

SpecScoped == Init /\ [][NextScoped]_vars

(* SpecConserve: both destinations, found or not, with sends that succeed  *)
(* or fail with an error that is not a 429.                                *)
SubmitConserve ==
  \E c \in Channels : queue_message(c, EmbedKill, NORMAL, FALSE, ConserveMsgs)
TimeConserve == Tick(1, ConserveMaxTime)

NextConserve ==
  \/ SubmitConserve
  \/ Dispatch
  \/ Start
  \/ Ack
  \/ Fail
  \/ Resume
  \/ TimeConserve

SpecConserve == Init /\ [][NextConserve]_vars

(* SpecLive: the submissions are over and have left one message queued for *)
(* each destination, with the global window one send short of its capacity *)
(* (SpecGlobal's start); every answer of the transport, under the          *)
(* scheduling of the event loop: a task that is ready                      *)
(* runs and the transport answers before the clock moves on, a timer fires *)
(* when its time has come, and the dispatcher keeps cycling. The clock     *)
(* advances only when nothing else is ready, and is not followed further   *)
(* once no message is queued and no worker is left.                        *)
Answer == Ack \/ Fail \/ RateLimited
Ready ==
  \/ ENABLED <<Dispatch>>_vars
  \/ ENABLED Start
  \/ ENABLED Answer
  \/ ENABLED Wake
  \/ ENABLED Resume
Pending ==
  \/ \E c \in Channels : channel_queues[c] # <<>>
  \/ \E k \in Tasks : task[k].pc # "none"
TimeLive == ~Ready /\ Pending /\ Tick(1, LiveMaxTime)

NextLive ==
  \/ Dispatch
  \/ Start
  \/ Answer
  \/ Wake
  \/ Resume
  \/ TimeLive

SpecLive ==
  /\ InitGlobal
  /\ [][NextLive]_vars
  /\ WF_vars(Dispatch)
  /\ WF_vars(Start)
  /\ WF_vars(Answer)
  /\ WF_vars(Wake)
  /\ WF_vars(Resume)
  /\ WF_vars(TimeLive)

(* SpecStale: destination 1 over more than a channel window: the clock     *)
(* goes from the start to the end of the 5 s window in one step, then in   *)
(* ticks.                                                                  *)
SubmitStale == queue_message(1, EmbedKill, NORMAL, FALSE, StaleMsgs)
TimeStale == Tick(IF now = Epoch THEN CHANNEL_WINDOW ELSE 1, StaleMaxTime)

NextStale ==
  \/ SubmitStale
  \/ Dispatch
  \/ StartFound
  \/ Ack
  \/ Fail
  \/ Resume
  \/ TimeStale

SpecStale == Init /\ [][NextStale]_vars

----------------------------------------------------------------------------
(* Properties.                                                             *)

(* A worker holds its channel's claim from the add() to the finally clause: *)
(* at every await inside the loop.                                         *)
Holding(k) == task[k].pc \in {"sending", "throttled", "callback", "sleep"}

Holders(c) == {k \in Tasks : k[1] = c /\ Holding(k)}

(* C1: for every destination, at no point do two _process_channel_queue    *)
(* workers hold its claim at once, whoever created them (the dispatcher    *)
(* loop or flush_all_queues).                                              *)
C1_MutualExclusion == \A c \in Channels : Cardinality(Holders(c)) <= 1

(* A worker holds the claim while a second task for the same channel,      *)
(* made by the other creator, is about to run.                             *)
C1_Witness ==
  \E c \in Channels, k1 \in Tasks, k2 \in Tasks :
    /\ k1[1] = c /\ k2[1] = c /\ k1 # k2
    /\ Holding(k1)
    /\ task[k2].pc = "created"
    /\ channel_queues[c] # <<>>

(* The times at which the successful sends to channel c were handed to     *)
(* channel.send, in the order they were recorded.                          *)
SendTimes(c) ==
  LET log == SelectSeq(sendlog, LAMBDA e : e[1] = c)
  IN [i \in 1..Len(log) |-> log[i][2]]

(* C2: at most CHANNEL_RATE_LIMIT (5) sends to a destination succeed       *)
(* within any interval of 5 time-units: of any 6 consecutive successful    *)
(* sends to it, the last is handed to the transport more than 5            *)
(* time-units after the first.                                             *)
C2_ChannelRate ==
  \A c \in Channels :
    LET times == SendTimes(c)
    IN \A i \in 1..Len(times) :
         i + CHANNEL_RATE_LIMIT <= Len(times)
           => times[i + CHANNEL_RATE_LIMIT] - times[i] > CHANNEL_WINDOW

(* Six of the queued messages have been sent, the sixth after the window   *)
(* of the first five.                                                      *)
C2_Witness ==
  /\ Len(SendTimes(1)) >= CHANNEL_RATE_LIMIT + 1
  /\ SendTimes(1)[CHANNEL_RATE_LIMIT] - SendTimes(1)[1] < CHANNEL_WINDOW

(* The successful sends, of all destinations, handed to the transport in   *)
(* the time-unit that ends at time t.                                      *)
SendsInUnitBefore(t) ==
  {i \in 1..Len(sendlog) : t - GLOBAL_WINDOW < sendlog[i][2] /\ sendlog[i][2] <= t}

(* C3: across all destinations, at most GLOBAL_RATE_LIMIT sends are        *)
(* performed within any 1 time-unit interval, with the workers of          *)
(* different destinations running side by side.                            *)
C3_GlobalRate ==
  \A i \in 1..Len(sendlog) :
    Cardinality(SendsInUnitBefore(sendlog[i][2])) <= GLOBAL_RATE_LIMIT

(* A step hands a message to channel.send.                                 *)
SendStarts == attempts' # attempts

(* C4: after the transport answers a send with a global RateLimited        *)
(* response at time t with retry_after r, no send to any destination is    *)
(* started before t + r.                                                   *)
C4_GlobalThrottle == [][SendStarts => now >= globalDeadline]_vars

(* C5: a message whose send got a RateLimited response with retry_after r  *)
(* is not handed to the transport again before r has elapsed since that    *)
(* response.                                                               *)
C5_ThrottleRetry ==
  [][\A i \in MsgIds : attempts'[i] > attempts[i] => now >= notBefore[i]]_vars

(* A message that was answered RateLimited is being sent again.            *)
C5_Witness ==
  \E k \in Tasks :
    /\ task[k].pc = "sending"
    /\ notBefore[task[k].msg[1].id] > 0
    /\ task[k].msg[1].retry_count >= 1

(* Where message i is: the queues that hold it, the workers that hold it.  *)
QueuedAt(i) ==
  {c \in Channels : \E j \in 1..Len(channel_queues[c]) : channel_queues[c][j].id = i}

InFlight(i) == {k \in Tasks : task[k].msg # <<>> /\ task[k].msg[1].id = i}

(* C6: no message is handed to the transport more than 3 times, and every  *)
(* message in a queue or with a worker has retry_count in {0, 1, 2}.       *)
C6_RetryBound ==
  /\ \A i \in MsgIds : attempts[i] <= MAX_RETRIES
  /\ \A c \in Channels : \A j \in 1..Len(channel_queues[c]) :
       channel_queues[c][j].retry_count \in 0..(MAX_RETRIES - 1)
  /\ \A k \in Tasks : task[k].msg # <<>> =>
       task[k].msg[1].retry_count \in 0..(MAX_RETRIES - 1)

(* A message has failed three times and is gone from its queue.            *)
C6_Witness ==
  \E i \in MsgIds :
    /\ attempts[i] = MAX_RETRIES
    /\ delivered[i] = 0
    /\ QueuedAt(i) = {}
    /\ InFlight(i) = {}

(* C7: no message is successfully sent more than once; once sent it is in  *)
(* no queue and with no worker.                                            *)
C7_DeliveredOnce ==
  \A i \in MsgIds :
    /\ delivered[i] <= 1
    /\ delivered[i] = 1 => QueuedAt(i) = {} /\ InFlight(i) = {}

(* A message failed twice and was delivered by its third attempt.          *)
C7_Witness ==
  \E i \in MsgIds : attempts[i] = MAX_RETRIES /\ delivered[i] = 1

(* C8: two payloads with identical stable fields submitted to the same     *)
(* destination within the dedup window give one queued message: two        *)
(* queued messages with the same destination and fingerprint are at least  *)
(* a dedup window apart.                                                   *)
C8_Dedup ==
  \A i \in 1..Len(accepted) : \A j \in 1..Len(accepted) :
    (i < j /\ accepted[i][1] = accepted[j][1] /\ accepted[i][2] = accepted[j][2])
      => accepted[j][3] - accepted[i][3] >= dedup_window

(* The queued messages of destination c with fingerprint h.                *)
AcceptedOf(c, h) == {i \in 1..Len(accepted) : accepted[i][1] = c /\ accepted[i][2] = h}

(* C9: a fingerprint expires one dedup window after it was recorded:       *)
(* a payload is queued once when it is first recorded and once more only   *)
(* for every full window passed since, duplicates in between or not.       *)
C9_Expiry ==
  \A i \in 1..Len(accepted) :
    LET same == AcceptedOf(accepted[i][1], accepted[i][2])
        first == CHOOSE j \in same : \A k \in same : j <= k
    IN Cardinality(same) <= 1 + ((now - accepted[first][3]) \div dedup_window)

(* C10: with no delivery in between, a destination's queue is ordered by   *)
(* priority value ascending, and messages of equal priority are in         *)
(* arrival order.                                                          *)
C10_PriorityOrder ==
  \A c \in Channels : c \notin popped =>
    \A i \in 1..Len(channel_queues[c]) : \A j \in 1..Len(channel_queues[c]) :
      i < j =>
        \/ channel_queues[c][i].priority < channel_queues[c][j].priority
        \/ /\ channel_queues[c][i].priority = channel_queues[c][j].priority
           /\ channel_queues[c][i].id < channel_queues[c][j].id

(* A queue of three tiers, one of them with two messages, whose latest     *)
(* arrival went in before an earlier one.                                  *)
C10_Witness ==
  \E c \in Channels :
    LET q == channel_queues[c]
    IN /\ Len(q) = QueueMsgs
       /\ Cardinality({q[i].priority : i \in 1..Len(q)}) = 3
       /\ q[Len(q)].id < q[1].id

(* C11: in every reachable state, failed sends and retry re-insertions     *)
(* interleaved with submits included, two queued messages of equal         *)
(* priority for one destination are in the order of their arrival.         *)
C11_FifoWithinTier ==
  \A c \in Channels :
    \A i \in 1..Len(channel_queues[c]) : \A j \in 1..Len(channel_queues[c]) :
      (i < j /\ channel_queues[c][i].priority = channel_queues[c][j].priority)
        => channel_queues[c][i].id < channel_queues[c][j].id

(* The scenario's messages, by id: the place of each in the scenario.      *)
ScenarioId(priority) == CHOOSE i \in 1..Len(Scenario) : Scenario[i] = priority

(* C12 as stated: a CRITICAL, then a LOW, then a NORMAL message submitted  *)
(* to one destination, all sends succeeding, are delivered in the order    *)
(* CRITICAL, NORMAL, LOW.                                                  *)
C12_UrgentFirst ==
  /\ delivered[ScenarioId(LOW)] = 1 => delivered[ScenarioId(NORMAL)] = 1
  /\ delivered[ScenarioId(NORMAL)] = 1 => delivered[ScenarioId(CRITICAL)] = 1

(* C12, amended: the three messages are delivered in the order CRITICAL,   *)
(* NORMAL, LOW when the NORMAL message is queued before the LOW one is     *)
(* handed to the transport: the LOW message is handed over only after the  *)
(* NORMAL one was delivered, the NORMAL one only after the CRITICAL one.   *)
C12_QueueOrder ==
  [][/\ (attempts'[ScenarioId(LOW)] > attempts[ScenarioId(LOW)]
          /\ nsub = Len(Scenario))
          => delivered[ScenarioId(NORMAL)] = 1
     /\ attempts'[ScenarioId(NORMAL)] > attempts[ScenarioId(NORMAL)]
          => delivered[ScenarioId(CRITICAL)] = 1]_vars

(* The three were queued by the time of the first send, and all three have *)
(* been delivered.                                                         *)
C12_Witness ==
  /\ nsub = Len(Scenario)
  /\ \A i \in 1..Len(Scenario) : delivered[i] = 1
  /\ accepted[ScenarioId(NORMAL)][3] <= SendTimes(1)[1]

(* flush_all_queues returns in this step.                                  *)
FlushCompletes == flush.pc # "done" /\ flush'.pc = "done"

(* C14: when flush_all_queues completes and no message was submitted       *)
(* during it, every destination queue is empty.                            *)
C14_Drained ==
  [][(FlushCompletes /\ nsub' = atFlush.nsub)
       => \A c \in Channels : channel_queues'[c] = <<>>]_vars

(* C15: once flush_all_queues has begun, _process_queues starts no worker: *)
(* no step after the call creates a dispatcher-made task.                  *)
C15_NoDispatchAfterFlush ==
  [][flush.pc # "idle"
       => \A c \in Channels :
            task'[<<c, "dispatcher">>].pc = "created"
              => task[<<c, "dispatcher">>].pc = "created"]_vars

(* C16: every worker that was in a send attempt when flush_all_queues was  *)
(* called has finished that attempt, a throttle wait inside it included,   *)
(* before flush_all_queues returns.                                        *)
C16_AttemptsFinished ==
  flush.pc = "done" =>
    \A e \in atFlush.inflight :
      ~(/\ Sending(e[1])
        /\ task[e[1]].msg[1].id = e[2]
        /\ attempts[e[2]] = e[3])

(* s is what is left of t after entries were dropped from its head.        *)
IsSuffix(s, t) ==
  /\ Len(s) <= Len(t)
  /\ \A i \in 1..Len(s) : s[i] = t[Len(t) - Len(s) + i]

(* A step in which the send that worker k is waiting for succeeds.         *)
Succeeds(k) ==
  /\ task[k].pc = "sending"
  /\ task'[k].pc # "sending"
  /\ delivered' # delivered

(* C17: a successful send appends its timestamp once to the window of its  *)
(* destination and once to the global window; a step that is not a         *)
(* successful send (a failed send, a 429 response, a drop) appends to      *)
(* neither window and leaves channel_last_sent alone.                      *)
C17_RecordedOnce ==
  [][/\ \A k \in Tasks : Succeeds(k) =>
          /\ global_message_times' =
               DequeAppend(global_message_times, task[k].current_time, GLOBAL_RATE_LIMIT)
          /\ channel_message_count'[k[1]] =
               DequeAppend(channel_message_count[k[1]], task[k].current_time,
                           CHANNEL_RATE_LIMIT)
          /\ \A c \in Channels \ {k[1]} :
               channel_message_count'[c] = channel_message_count[c]
     /\ delivered' = delivered =>
          /\ IsSuffix(global_message_times', global_message_times)
          /\ \A c \in Channels :
               IsSuffix(channel_message_count'[c], channel_message_count[c])
          /\ channel_last_sent' = channel_last_sent]_vars

(* A message was delivered by its second or third attempt, after a 429     *)
(* response among its failures, and the global window holds one timestamp. *)
C17_Witness ==
  \E i \in MsgIds :
    /\ attempts[i] >= 2
    /\ notBefore[i] > 0
    /\ delivered[i] = 1
    /\ Len(global_message_times) = 1
    /\ Len(channel_message_count[1]) = 1

(* A step in which the send that worker k is waiting for fails with an     *)
(* error other than a 429 response.                                        *)
FailsHard(k) ==
  /\ task[k].pc = "sending"
  /\ task'[k].pc = "sleep"
  /\ delivered' = delivered

(* The queues that hold message i after the step.                          *)
QueuedAfter(i) ==
  {c \in Channels :
     \E j \in 1..Len(channel_queues'[c]) : channel_queues'[c][j].id = i}

(* C18: a send that fails with a Permanent transport error (an error that  *)
(* is not a 429 response) drops the message after that single attempt: it  *)
(* is not put back in the queue.                                           *)
C18_PermanentDropped ==
  [][\A k \in Tasks : FailsHard(k) => QueuedAfter(task[k].msg[1].id) = {}]_vars

(* A step in which worker k starts, takes the claim and finds that         *)
(* bot.get_channel returns nothing.                                        *)
NotFound(k) == ~AlreadyClaimed(k[1]) /\ WorkerStart(k, FALSE)

(* C19: when a worker starts for a destination that is not found, the      *)
(* whole queue of that destination is cleared with no send attempt, no     *)
(* retry and no callback, the claim is released, and the queues and the    *)
(* rate-limit state of the other destinations are unchanged.               *)
C19_NotFoundClears ==
  [][\A k \in Tasks : NotFound(k) =>
       /\ channel_queues'[k[1]] = <<>>
       /\ attempts' = attempts /\ delivered' = delivered /\ raised' = raised
       /\ task'[k] = IdleTask
       /\ k[1] \notin processing_channels'
       /\ \A c \in Channels \ {k[1]} :
            /\ channel_queues'[c] = channel_queues[c]
            /\ (c \in processing_channels') = (c \in processing_channels)
            /\ \A o \in Origins : task'[<<c, o>>] = task[<<c, o>>]
       /\ UNCHANGED <<channel_message_count, channel_last_sent,
                      global_message_times, global_rate_limit_reset>>]_vars

(* A queued message is gone without a send attempt, while the other        *)
(* destination has a message queued or with its worker.                    *)
C19_Witness ==
  \E i \in 1..nsub :
    /\ attempts[i] = 0
    /\ QueuedAt(i) = {}
    /\ \E c \in Channels \ {accepted[i][1]} :
         \/ channel_queues[c] # <<>>
         \/ \E o \in Origins : Sending(<<c, o>>)

(* C20: when the callback of a successfully sent message raises, the       *)
(* message is not re-queued, its success stays recorded in both windows    *)
(* and in channel_last_sent, and the worker keeps the claim and goes on    *)
(* with the loop: the 0.1 s sleep, then the next message.                  *)
C20_CallbackIsolated ==
  [][\A k \in Tasks : CallbackRaises(k) =>
       /\ QueuedAfter(task[k].msg[1].id) = {}
       /\ channel_queues' = channel_queues
       /\ delivered'[task[k].msg[1].id] = 1
       /\ UNCHANGED <<global_message_times, channel_message_count, channel_last_sent>>
       /\ k[1] \in processing_channels'
       /\ task'[k] = [pc |-> "sleep", msg |-> <<>>, current_time |-> 0,
                      wake |-> now + WORKER_DELAY]]_vars

(* The callback of one message raised, and the next message of the        *)
(* destination was handed over MESSAGE_DELAY after it and delivered; both  *)
(* were sent once.                                                         *)
C20_Witness ==
  \E i \in raised, j \in 1..nsub :
    /\ i # j
    /\ delivered[i] = 1
    /\ delivered[j] = 1
    /\ Len(sendlog) = 2
    /\ sendlog[2][2] - sendlog[1][2] = MESSAGE_DELAY
    /\ attempts[i] = 1 /\ attempts[j] = 1

C22_StatsReadOnly ==
  [][stats' # stats =>
       /\ UNCHANGED <<now, channel_queues, channel_last_sent, channel_message_count,
                      global_message_times, processing_channels,
                      global_rate_limit_reset, recent_embeds, task, flush>>
       /\ GetQueueStats' = stats'[1]]_vars

(* get_queue_stats has returned the counts of a state with a message       *)
(* queued and a destination claimed, and nothing has happened since.       *)
C22_Witness ==
  /\ stats # <<>>
  /\ stats[1] = GetQueueStats
  /\ stats[1].total_queued >= 1
  /\ stats[1].processing_channels >= 1

(* C23: in every state the result of get_queue_stats agrees with the       *)
(* queues: total_queued is the sum of the queue lengths and the sum of the *)
(* priority_breakdown counts, active_channels is the number of non-empty   *)
(* queues, processing_channels is the size of the processing set.          *)
C23_StatsConsistent ==
  LET r == GetQueueStats
      queued == {m \in Channels \X MsgIds : m[1] \in QueuedAt(m[2])}
  IN /\ r.total_queued = Cardinality(queued)
     /\ r.total_queued = Sum(r.priority_breakdown, DOMAIN r.priority_breakdown)
     /\ r.active_channels = Cardinality({c \in Channels : Len(channel_queues[c]) > 0})
     /\ r.processing_channels = Cardinality(processing_channels)

(* Both destinations have a message queued, one urgent and one bulk.       *)
C23_Witness ==
  /\ GetQueueStats.active_channels = Cardinality(Channels)
  /\ DOMAIN GetQueueStats.priority_breakdown = {"HIGH", "LOW"}

(* A step in which worker k comes out of the sleep(retry_after) that       *)
(* follows a 429 response and _send_message returns False.                 *)
After429(k) == task[k].pc = "throttled" /\ task'[k].pc # "throttled"

(* The places of message i in the queue of channel c after the step.       *)
PlacesAfter(c, i) ==
  {j \in 1..Len(channel_queues'[c]) : channel_queues'[c][j].id = i}

(* C24: a message that got a RateLimited response is re-inserted at the    *)
(* front of its own priority tier: ahead of every queued message of equal  *)
(* or lower urgency, behind every queued message of higher urgency, those  *)
(* submitted while the send was in flight included.                        *)
C24_FrontOfTier ==
  [][\A k \in Tasks : After429(k) =>
       LET c == k[1]
           m == task[k].msg[1]
       IN \A at \in PlacesAfter(c, m.id) :
            \A j \in 1..Len(channel_queues'[c]) :
              /\ channel_queues'[c][j].priority < m.priority => j < at
              /\ (j # at /\ channel_queues'[c][j].priority >= m.priority) => j > at]_vars

(* C25: after a RateLimited response the worker stops its loop: it         *)
(* releases the claim and ends without another send attempt in the same    *)
(* run.                                                                    *)
C25_StopsAfter429 ==
  [][\A k \in Tasks : After429(k) =>
       /\ task'[k].pc = "none"
       /\ k[1] \notin processing_channels']_vars

(* C26: throttle retries have no cap: a message is put back in its queue   *)
(* after every RateLimited response, however many it has had.              *)
C26_NoThrottleCap ==
  [][\A k \in Tasks : After429(k) => QueuedAfter(task[k].msg[1].id) = {k[1]}]_vars

(* C27: after a send failure that is not a 429 response and is not the     *)
(* message's third failure, the message is at index 0 of its destination's *)
(* queue with its retry count one higher, whatever its priority and the    *)
(* priorities of the messages queued meanwhile, and the worker goes on:    *)
(* it keeps the claim and sleeps 0.1 s before the next pass of the loop.   *)
C27_RetryAtHead ==
  [][\A k \in Tasks :
       (FailsHard(k) /\ task[k].msg[1].retry_count + 1 < MAX_RETRIES) =>
         /\ channel_queues'[k[1]] =
              <<[task[k].msg[1] EXCEPT !.retry_count = @ + 1]>> \o channel_queues[k[1]]
         /\ k[1] \in processing_channels'
         /\ task'[k].wake = now + WORKER_DELAY]_vars

(* A NORMAL message that failed is at the head of its queue, ahead of a    *)
(* HIGH message queued while it was with the worker.                       *)
C27_Witness ==
  \E c \in Channels :
    /\ Len(channel_queues[c]) >= 2
    /\ channel_queues[c][1].retry_count >= 1
    /\ notBefore[channel_queues[c][1].id] = 0
    /\ channel_queues[c][1].priority = NORMAL
    /\ channel_queues[c][2].priority = HIGH

(* Message i waits in a queue for another attempt after a failed one.      *)
AwaitsRetry(i) ==
  \E c \in Channels : \E j \in 1..Len(channel_queues[c]) :
    channel_queues[c][j].id = i /\ channel_queues[c][j].retry_count >= 1

(* C28: a message re-queued after a failed send keeps its place in the     *)
(* delivery order: no other message of its destination is handed to the    *)
(* transport before it is delivered or dropped, more urgent messages       *)
(* submitted in between included.                                          *)
C28_RetryKeepsPlace ==
  [][\A i \in MsgIds : \A j \in MsgIds :
       (i # j /\ AwaitsRetry(i) /\ attempts'[j] > attempts[j])
         => QueuedAt(i) # QueuedAt(j)]_vars

(* A step in which a dispatch cycle makes a worker task for channel c.     *)
StartsWorker(c) ==
  /\ task[<<c, "dispatcher">>].pc # "created"
  /\ task'[<<c, "dispatcher">>].pc = "created"

(* C29: a dispatch cycle starts no worker while sending is globally        *)
(* throttled or the global window is at capacity; otherwise it starts a    *)
(* worker for a destination only if the queue is non-empty, the            *)
(* destination is unclaimed and _can_send_to_channel holds at the cycle's  *)
(* timestamp; no destination gets a second worker task while one made for  *)
(* it has not run.                                                         *)
C29_DispatchGuard ==
  [][\A c \in Channels : StartsWorker(c) =>
       /\ now >= global_rate_limit_reset
       /\ Cardinality({j \in 1..Len(global_message_times) :
                         now - global_message_times[j] <= GLOBAL_WINDOW}) < GLOBAL_RATE_LIMIT
       /\ channel_queues[c] # <<>>
       /\ c \notin processing_channels
       /\ Cardinality({j \in 1..Len(channel_message_count[c]) :
                         now - channel_message_count[c][j] <= CHANNEL_WINDOW}) < CHANNEL_RATE_LIMIT
       /\ now - DictGet(channel_last_sent, c, 0) >= MESSAGE_DELAY
       /\ Cardinality({k \in Tasks : k[1] = c /\ task'[k].pc = "created"}) = 1]_vars

(* A worker task has been made for a message submitted after a first       *)
(* cycle, while the other destination, claimed by its worker, has a        *)
(* message queued and got no task.                                         *)
C29_Witness ==
  \E c \in Channels : \E d \in Channels \ {c} :
    /\ task[<<c, "dispatcher">>].pc = "created"
    /\ channel_queues[c] # <<>>
    /\ channel_queues[c][1].id > Cardinality(Channels)
    /\ task[<<d, "dispatcher">>].pc # "created"
    /\ channel_queues[d] # <<>>
    /\ d \in processing_channels

(* A step in which worker k, at the top of its loop with a message queued  *)
(* (at its start, the destination found, or after its 0.1 s sleep), gets   *)
(* False from _can_send_to_channel or True from _is_globally_rate_limited. *)
StopsAtCheck(k) ==
  /\ \/ task[k].pc = "sleep" /\ now >= task[k].wake
     \/ task[k].pc = "created" /\ ~AlreadyClaimed(k[1]) /\ channel_queues'[k[1]] # <<>>
  /\ task'[k].pc \notin {"sleep", "created"}
  /\ channel_queues[k[1]] # <<>>
  /\ \/ ~CanSendToChannel(channel_message_count[k[1]], channel_last_sent, k[1], now)
     \/ IsGloballyRateLimited(global_message_times, global_rate_limit_reset, now)

(* Window s is window t without timestamps older than `window`, all of     *)
(* them at the head of t.                                                  *)
ExpiredDropped(s, t, window) ==
  /\ IsSuffix(s, t)
  /\ \A j \in 1..(Len(t) - Len(s)) : now - t[j] > window
  /\ s # <<>> => now - Head(s) <= window

(* C30 as stated: a worker that stops at the checks at the top of its loop *)
(* leaves the queue, the retry counts, both windows and channel_last_sent  *)
(* as they were and releases the claim.                                    *)
C30_StopChangesNothing ==
  [][\A k \in Tasks : StopsAtCheck(k) =>
       /\ UNCHANGED <<channel_queues, channel_last_sent, channel_message_count,
                      global_message_times>>
       /\ k[1] \notin processing_channels'
       /\ task'[k].pc = "none"]_vars

(* C30, amended: such a worker leaves the queues, the retry counts and     *)
(* channel_last_sent as they were and releases the claim; no timestamp is  *)
(* added to a window, and the two checks drop the expired timestamps at    *)
(* the head of the windows they read: the destination's window always, the *)
(* global window when _can_send_to_channel held.                           *)
C30_StopDropsExpiredOnly ==
  [][\A k \in Tasks : StopsAtCheck(k) =>
       /\ UNCHANGED <<channel_queues, channel_last_sent>>
       /\ k[1] \notin processing_channels'
       /\ task'[k].pc = "none"
       /\ \A c \in Channels \ {k[1]} : channel_message_count'[c] = channel_message_count[c]
       /\ ExpiredDropped(channel_message_count'[k[1]], channel_message_count[k[1]],
                         CHANNEL_WINDOW)
       /\ IF CanSendToChannel(channel_message_count[k[1]], channel_last_sent, k[1], now)
            THEN ExpiredDropped(global_message_times', global_message_times, GLOBAL_WINDOW)
            ELSE global_message_times' = global_message_times]_vars

(* A worker is about to wake from its 0.1 s sleep with a message queued,   *)
(* less than 0.2 s after its last send and with a timestamp older than 5 s *)
(* at the head of the destination's window.                                *)
C30_Witness ==
  \E k \in Tasks :
    /\ task[k].pc = "sleep" /\ now >= task[k].wake
    /\ channel_queues[k[1]] # <<>>
    /\ now - DictGet(channel_last_sent, k[1], 0) < MESSAGE_DELAY
    /\ channel_message_count[k[1]] # <<>>
    /\ now - Head(channel_message_count[k[1]]) > CHANNEL_WINDOW
    /\ ENABLED WorkerResume(k)

(* A step in which a worker task made for a claimed destination runs.      *)
StartsClaimed(k) ==
  /\ task[k].pc = "created"
  /\ k[1] \in processing_channels
  /\ task'[k].pc # "created"

(* C31: a worker started for a destination that is already claimed returns *)
(* at once: it dequeues and sends nothing, changes no queue, window,       *)
(* last-sent time or throttle deadline, and leaves the claim and the       *)
(* worker that holds it as they are.                                       *)
C31_ClaimedNoOp ==
  [][\A k \in Tasks : StartsClaimed(k) =>
       /\ task'[k].pc = "none"
       /\ \A j \in Tasks \ {k} : task'[j] = task[j]
       /\ UNCHANGED <<channel_queues, channel_last_sent, channel_message_count,
                      global_message_times, processing_channels,
                      global_rate_limit_reset, recent_embeds, attempts, delivered,
                      sendlog>>]_vars

(* A worker task is about to run for a destination with a message queued   *)
(* whose claim is held by another worker.                                  *)
C31_Witness ==
  \E k \in Tasks : \E j \in Tasks \ {k} :
    /\ task[k].pc = "created"
    /\ j[1] = k[1]
    /\ Holding(j)
    /\ k[1] \in processing_channels
    /\ channel_queues[k[1]] # <<>>
    /\ ENABLED WorkerStart(k, TRUE)

C33_MinSpacing ==
  [][\A k \in Tasks :
       /\ (task[k].pc # "sending" /\ task'[k].pc = "sending")
            => now - DictGet(channel_last_sent, k[1], 0) >= MESSAGE_DELAY
       /\ (Succeeds(k) /\ sendlog' # sendlog)
            => \A j \in 1..Len(sendlog) :
                 sendlog[j][1] = k[1]
                   => task[k].current_time - sendlog[j][2] >= MESSAGE_DELAY]_vars

(* Two sends to destination 1 succeeded, the second handed over exactly    *)
(* MESSAGE_DELAY after the first; the worker is in its 0.1 s sleep.        *)
C33_Witness ==
  /\ Len(SendTimes(1)) >= 2
  /\ SendTimes(1)[2] - SendTimes(1)[1] = MESSAGE_DELAY
  /\ task[<<1, "dispatcher">>].pc = "sleep"

(* A step in which worker k is at the top of its loop with a message       *)
(* queued and calls _can_send_to_channel.                                  *)
ChecksChannel(k) ==
  /\ \/ WorkerResume(k)
     \/ ~AlreadyClaimed(k[1]) /\ WorkerStart(k, TRUE)
  /\ channel_queues[k[1]] # <<>>

(* C34: right after a call of _is_globally_rate_limited (by a dispatch     *)
(* cycle or by a worker whose destination passed its own check) the global *)
(* window holds no timestamp older than 1 time-unit, in whatever order the *)
(* workers recorded their sends; right after a call of                     *)
(* _can_send_to_channel the destination's window holds no timestamp older  *)
(* than 5 time-units.                                                      *)
C34_NoStaleTimestamps ==
  [][/\ (\/ process_queues
          \/ \E k \in Tasks :
               /\ ChecksChannel(k)
               /\ CanSendToChannel(channel_message_count[k[1]], channel_last_sent,
                                   k[1], now))
         => \A j \in 1..Len(global_message_times') :
              now - global_message_times'[j] <= GLOBAL_WINDOW
     /\ \A k \in Tasks : ChecksChannel(k)
         => \A j \in 1..Len(channel_message_count'[k[1]]) :
              now - channel_message_count'[k[1]][j] <= CHANNEL_WINDOW]_vars

(* A step in which the send of worker k is answered 429.                   *)
Gets429(k) == task[k].pc = "sending" /\ task'[k].pc = "throttled"

(* The messages accepted for destination c.                                *)
MessagesOf(c) == {i \in 1..Len(accepted) : accepted[i][1] = c}

C36_BlockConfined ==
  \A k \in Tasks : Sending(k) =>
    /\ \A j \in Tasks \ {k} : task[j].pc = "sending" => ENABLED SendOk(j)
    /\ \A j \in Tasks : task[j].pc = "created" => ENABLED WorkerStart(j, TRUE)
    /\ \A e \in Channels \ {k[1]} :
         (/\ \A c \in Channels : task[<<c, "dispatcher">>].pc # "created"
          /\ DispatcherStarts(e, now)
          /\ ~IsGloballyRateLimited(global_message_times, global_rate_limit_reset, now))
           => ENABLED (process_queues /\ task'[<<e, "dispatcher">>].pc = "created")

(* A send to one destination was handed over and delivered while the       *)
(* worker of the other destination, which got a 429 answer before, still   *)
(* waits out its retry_after.                                              *)
C36_Witness ==
  \E k \in Tasks : \E n \in 1..Len(sendlog) :
    /\ task[k].pc = "throttled"
    /\ now < task[k].wake
    /\ sendlog[n][1] # k[1]
    /\ sendlog[n][2] > task[k].current_time

(* The places <<c, j>> of message i in the queues, and the workers that    *)
(* wait for the transport with it.                                         *)
PlacesIn(queues, i) ==
  {p \in UNION {{c} \X (1..Len(queues[c])) : c \in Channels} :
     queues[p[1]][p[2]].id = i}

SendingIn(tasks, i) ==
  {k \in Tasks : /\ tasks[k].pc \in {"sending", "throttled"}
                 /\ tasks[k].msg[1].id = i}

(* Message i, accepted for destination c, is in at most one place, and a   *)
(* queue or worker that has it is one of c.                                *)
OnePlace(queues, tasks, done, c, i) ==
  /\ Cardinality(PlacesIn(queues, i)) + Cardinality(SendingIn(tasks, i)) + done[i] <= 1
  /\ \A p \in PlacesIn(queues, i) : p[1] = c
  /\ \A k \in SendingIn(tasks, i) : k[1] = c

C38_Drains ==
  <>[](/\ \A c \in Channels : channel_queues[c] = <<>>
       /\ \A k \in Tasks : task[k].msg = <<>>)

(* A message that was answered 429 was dropped at its third failure,       *)
(* another one was delivered, and the queues are empty.                    *)
C38_Witness ==
  /\ \E j \in 1..nsub : delivered[j] = 1
  /\ \A c \in Channels : channel_queues[c] = <<>>
  /\ \A k \in Tasks : task[k].pc = "none"
  /\ \E i \in 1..nsub :
       attempts[i] = MAX_RETRIES /\ delivered[i] = 0 /\ notBefore[i] > 0

====
